---------------------------- MODULE Spec2Model ----------------------------
(***************************************************************************)
(* Model of src/ht16k33segmentbig.py: class HT16K33SegmentBig, the driver  *)
(* of a 4-digit 7-segment display.  The state is the 16-byte display       *)
(* buffer and the stored colon pattern; the operations are the four        *)
(* setters set_colon, set_glyph, set_number and set_character.             *)
(*                                                                         *)
(* Python values are modelled as follows.                                  *)
(*   - a str is the sequence of its code points ("deg" = <<100,101,103>>); *)
(*   - the bytearray `buffer` is a function on the Python indices 0..15;   *)
(*   - a tuple / bytes constant is a TLA+ sequence read through PyIndex,   *)
(*     which counts a negative index from the end as Python does;          *)
(*   - a raised exception is the name of its class, "ok" for none.         *)
(* Assertions are enabled (the interpreter's default).                     *)
(***************************************************************************)
EXTENDS Integers, Sequences, FiniteSets

VARIABLES
    buffer,         \* self.buffer: [0..15 -> 0..255]
    point_pattern,  \* self.point_pattern
    last,           \* the call made last: method, arguments, exception, state before it
    calls,          \* the number of calls made since construction
    on_script       \* TRUE while the calls made so far are a prefix of Script

vars == <<buffer, point_pattern, last, calls, on_script>>

---------------------------------------------------------------------------
(* Class constants, lines 17-27 *)

HT16K33_SEGMENT_COLON_ROW == 4
HT16K33_SEGMENT_MINUS_CHAR == 16
HT16K33_SEGMENT_DEGREE_CHAR == 17
HT16K33_SEGMENT_SPACE_CHAR == 0

\* Mutant: the four digit slots taken as consecutive rows, the colon row not skipped
POS_Contiguous == <<0, 2, 4, 6>>

POS == <<0, 2, 6, 8>>

\* b'\x3F\x06\x5B\x4F\x66\x6D\x7D\x07\x7F\x6F\x5F\x7C\x58\x5E\x7B\x71\x40\x63'
CHARSET == <<63, 6, 91, 79, 102, 109, 125, 7, 127, 111,
             95, 124, 88, 94, 123, 113, 64, 99>>

\* bytearray(16)
BufferLen == 16

---------------------------------------------------------------------------
(* Python primitives the methods use *)

\* The string literals of set_character
STR_deg == <<100, 101, 103>>
STR_minus == <<45>>
STR_space == <<32>>
STR_abcdef == <<97, 98, 99, 100, 101, 102>>
STR_0123456789 == <<48, 49, 50, 51, 52, 53, 54, 55, 56, 57>>

\* str.lower() on ASCII text: 'A'..'Z' become 'a'..'z', the rest is kept
lower(s) == [i \in 1..Len(s) |-> IF s[i] \in 65..90 THEN s[i] + 32 ELSE s[i]]

\* `s in t` for two str: s occurs in t as a substring (so '' and 'ab' are in 'abcdef')
StrIn(s, t) ==
    \E i \in 0..(Len(t) - Len(s)) : SubSeq(t, i + 1, i + Len(s)) = s

\* str(n) for an int n
RECURSIVE StrNat(_)
StrNat(n) == IF n < 10 THEN <<48 + n>> ELSE StrNat(n \div 10) \o <<48 + (n % 10)>>

str(n) == IF n < 0 THEN <<45>> \o StrNat(-n) ELSE StrNat(n)

\* a & b for two ints >= 0
RECURSIVE BitAnd(_, _)
BitAnd(a, b) ==
    IF a = 0 \/ b = 0 THEN 0
    ELSE (a % 2) * (b % 2) + 2 * BitAnd(a \div 2, b \div 2)

\* Indexing a tuple, bytes or bytearray of length n with i: the 0-based position read,
\* or -1 when Python raises IndexError
PyPos(n, i) == IF 0 <= i /\ i < n THEN i
               ELSE IF -n <= i /\ i < 0 THEN n + i
               ELSE -1

\* seq[i] for a tuple or bytes constant, PyPos(Len(seq), i) # -1
PyIndex(seq, i) == seq[PyPos(Len(seq), i) + 1]

\* What a method hands back: the exception raised ("ok": none) and the state it leaves
Outcome(exc, buf, pat) == [exc |-> exc, buffer |-> buf, point_pattern |-> pat]

\* self.buffer[idx] = val on a bytearray: IndexError for an index out of range,
\* ValueError for a value outside range(0, 256)
StoreByte(buf, pat, idx, val) ==
    IF PyPos(BufferLen, idx) = -1 THEN Outcome("IndexError", buf, pat)
    ELSE IF ~(0 <= val /\ val < 256) THEN Outcome("ValueError", buf, pat)
    ELSE Outcome("ok", [buf EXCEPT ![PyPos(BufferLen, idx)] = val], pat)

---------------------------------------------------------------------------
(* The methods, as functions from the state before to the outcome *)

\* Mutant: the lower bound of the digit check dropped
DigitOk_NoLowerBound(digit) == digit < 4

\* assert 0 <= digit < 4 (lines 88, 107, 130)
DigitOk(digit) == 0 <= digit /\ digit < 4

\* Mutant: every 5-bit pattern accepted
PatternOk_5bit(pattern) == 0 <= pattern /\ pattern <= 31

\* assert 0 <= pattern < 0x1F (line 56)
PatternOk(pattern) == 0 <= pattern /\ pattern < 31

\* Mutant: every 8-bit glyph accepted, as the assert's message (0x00-0xFF) reads
GlyphOk_8bit(glyph) == 0 <= glyph /\ glyph < 256

\* assert 0 <= glyph < 0x80 (line 89)
GlyphOk(glyph) == 0 <= glyph /\ glyph < 128

\* assert 0 <= number < 10 (line 108)
NumberOk(number) == 0 <= number /\ number < 10

\* Mutant: point_pattern assigned before the pattern is checked
do_set_colon_StoreFirst(buf, pat, pattern) ==
    IF ~PatternOk(pattern) THEN Outcome("AssertionError", buf, pattern)
    ELSE StoreByte(buf, pattern, HT16K33_SEGMENT_COLON_ROW, pattern)

\* set_colon, lines 56-59
do_set_colon(buf, pat, pattern) ==
    IF ~PatternOk(pattern) THEN Outcome("AssertionError", buf, pat)
    ELSE StoreByte(buf, pattern, HT16K33_SEGMENT_COLON_ROW, pattern)

\* set_glyph, lines 88-91
do_set_glyph(buf, pat, glyph, digit) ==
    IF ~DigitOk(digit) THEN Outcome("AssertionError", buf, pat)
    ELSE IF ~GlyphOk(glyph) THEN Outcome("AssertionError", buf, pat)
    ELSE IF PyPos(Len(POS), digit) = -1 THEN Outcome("IndexError", buf, pat)
    ELSE StoreByte(buf, pat, PyIndex(POS, digit), BitAnd(glyph, 127))

\* ord(c) - k: TypeError unless c is a string of length 1
OrdMinus(c, k) ==
    IF Len(c) = 1 THEN [exc |-> "ok", val |-> c[1] - k]
    ELSE [exc |-> "TypeError", val |-> 255]

\* Mutant: char is not lower-cased before the comparisons
char_val_NoLower(char) ==
    LET c == char IN
    IF c = STR_deg THEN [exc |-> "NameError", val |-> 255]
    ELSE IF c = STR_minus THEN [exc |-> "ok", val |-> HT16K33_SEGMENT_MINUS_CHAR]
    ELSE IF c = STR_space THEN [exc |-> "ok", val |-> HT16K33_SEGMENT_SPACE_CHAR]
    ELSE IF StrIn(c, STR_abcdef) THEN OrdMinus(c, 87)
    ELSE IF StrIn(c, STR_0123456789) THEN OrdMinus(c, 48)
    ELSE [exc |-> "ok", val |-> 255]

\* set_character, lines 131-142: the character code char_val, or the exception
\* raised while computing it.  Line 134 reads the bare name
\* HT16K33_SEGMENT_DEGREE_CHAR, which is neither a local nor a module global
\* (a class attribute is not in a method's scope): NameError.
char_val(char) ==
    LET c == lower(char) IN
    IF c = STR_deg THEN [exc |-> "NameError", val |-> 255]
    ELSE IF c = STR_minus THEN [exc |-> "ok", val |-> HT16K33_SEGMENT_MINUS_CHAR]
    ELSE IF c = STR_space THEN [exc |-> "ok", val |-> HT16K33_SEGMENT_SPACE_CHAR]
    ELSE IF StrIn(c, STR_abcdef) THEN OrdMinus(c, 87)
    ELSE IF StrIn(c, STR_0123456789) THEN OrdMinus(c, 48)
    ELSE [exc |-> "ok", val |-> 255]

\* Mutant: the glyph stored at buffer[digit], not at buffer[POS[digit]]
do_set_character_RawDigit(buf, pat, char, digit) ==
    IF ~DigitOk(digit) THEN Outcome("AssertionError", buf, pat)
    ELSE LET cv == char_val(char) IN
         IF cv.exc # "ok" THEN Outcome(cv.exc, buf, pat)
         ELSE IF cv.val = 255 THEN Outcome("AssertionError", buf, pat)
         ELSE IF PyPos(Len(CHARSET), cv.val) = -1 THEN Outcome("IndexError", buf, pat)
         ELSE StoreByte(buf, pat, digit, PyIndex(CHARSET, cv.val))

\* set_character, lines 130-145
do_set_character(buf, pat, char, digit) ==
    IF ~DigitOk(digit) THEN Outcome("AssertionError", buf, pat)
    ELSE LET cv == char_val(char) IN
         IF cv.exc # "ok" THEN Outcome(cv.exc, buf, pat)
         ELSE IF cv.val = 255 THEN Outcome("AssertionError", buf, pat)
         ELSE IF PyPos(Len(CHARSET), cv.val) = -1 \/ PyPos(Len(POS), digit) = -1
              THEN Outcome("IndexError", buf, pat)
         ELSE StoreByte(buf, pat, PyIndex(POS, digit), PyIndex(CHARSET, cv.val))

\* Mutant: digit not passed on, so set_character writes its default digit 0
do_set_number_DefaultDigit(buf, pat, number, digit) ==
    IF ~DigitOk(digit) THEN Outcome("AssertionError", buf, pat)
    ELSE IF ~NumberOk(number) THEN Outcome("AssertionError", buf, pat)
    ELSE do_set_character(buf, pat, str(number), 0)

\* set_number, lines 107-109
do_set_number(buf, pat, number, digit) ==
    IF ~DigitOk(digit) THEN Outcome("AssertionError", buf, pat)
    ELSE IF ~NumberOk(number) THEN Outcome("AssertionError", buf, pat)
    ELSE do_set_character(buf, pat, str(number), digit)

---------------------------------------------------------------------------
(* The state machine *)

\* A call: the method, its int argument (pattern, glyph, number), its str argument
\* (char) and the digit
Call(op, num, char, digit) == [op |-> op, num |-> num, char |-> char, digit |-> digit]

\* The call sequence of the end-to-end scenario:
\* set_number(5, 0), set_character("a", 1), set_character("-", 2), set_colon(0x02)
Script == << Call("set_number", 5, <<>>, 0),
             Call("set_character", 0, <<97>>, 1),
             Call("set_character", 0, <<45>>, 2),
             Call("set_colon", 2, <<>>, 0) >>

\* The state after a call `c` whose outcome is `r`
Apply(c, r) ==
    /\ buffer' = r.buffer
    /\ point_pattern' = r.point_pattern
    /\ last' = [op |-> c.op, num |-> c.num, char |-> c.char, digit |-> c.digit,
                exc |-> r.exc, buffer0 |-> buffer, pattern0 |-> point_pattern]
    /\ calls' = calls + 1
    /\ on_script' = (on_script /\ calls < Len(Script) /\ Script[calls + 1] = c)

\* __init__, lines 31-34
Init ==
    /\ buffer = [i \in 0..(BufferLen - 1) |-> 0]
    /\ point_pattern = 0
    /\ last = [op |-> "__init__", num |-> 0, char |-> <<>>, digit |-> 0,
               exc |-> "ok", buffer0 |-> buffer, pattern0 |-> 0]
    /\ calls = 0
    /\ on_script = TRUE

set_colon(pattern) ==
    Apply(Call("set_colon", pattern, <<>>, 0),
          do_set_colon(buffer, point_pattern, pattern))

set_glyph(glyph, digit) ==
    Apply(Call("set_glyph", glyph, <<>>, digit),
          do_set_glyph(buffer, point_pattern, glyph, digit))

set_number(number, digit) ==
    Apply(Call("set_number", number, <<>>, digit),
          do_set_number(buffer, point_pattern, number, digit))

set_character(char, digit) ==
    Apply(Call("set_character", 0, char, digit),
          do_set_character(buffer, point_pattern, char, digit))

---------------------------------------------------------------------------
(* Arguments and specifications *)

\* Calls made by one behaviour of Spec
MaxCalls == 4

\* Calls made by one behaviour of SpecWide
MaxWideCalls == 1

\* How far the int arguments of SpecWide run past each end of the accepted range
ArgMargin == 1

\* Spec: any sequence of at most MaxCalls calls, the arguments taken at the edges
\* of each accepted range and from the scenario
DigitSample == {-1, 0, 1, 2, 3, 4}
PatternSample == {-1, 2, 30, 31}
GlyphSample == {-1, 127, 128}
NumberSample == {-1, 5, 10}
\* "a", "A", "-", " ", "deg", "z", "#", "ab"
CharSample == { <<97>>, <<65>>, <<45>>, <<32>>, <<100, 101, 103>>, <<122>>, <<35>>,
                <<97, 98>> }

ColonCall == calls < MaxCalls /\ \E pattern \in PatternSample : set_colon(pattern)

GlyphCall ==
    calls < MaxCalls /\ \E glyph \in GlyphSample, digit \in DigitSample : set_glyph(glyph, digit)

NumberCall ==
    calls < MaxCalls
        /\ \E number \in NumberSample, digit \in DigitSample : set_number(number, digit)

CharacterCall ==
    calls < MaxCalls
        /\ \E char \in CharSample, digit \in DigitSample : set_character(char, digit)

Next == ColonCall \/ GlyphCall \/ NumberCall \/ CharacterCall

Spec == Init /\ [][Next]_vars

\* SpecWide: at most MaxWideCalls calls, every int argument over its whole accepted
\* range and ArgMargin beyond it, char over the characters around '0'-'9', 'A'-'F'
\* and 'a'-'f' and over strings of other lengths
DigitArgs == (0 - ArgMargin)..(3 + ArgMargin)
PatternArgs == (0 - ArgMargin)..(31 + ArgMargin)
GlyphArgs == (0 - ArgMargin)..(128 + ArgMargin)
NumberArgs == (0 - ArgMargin)..(10 + ArgMargin)
\* ' ' '#' '-' '/' '0'..'9' ':' '@' 'A'..'G' 'Z' '`' 'a'..'g' 'z'
CharCodes == {32, 35, 45, 47} \cup (48..57) \cup {58, 64} \cup (65..71)
                 \cup {90, 96} \cup (97..103) \cup {122}
\* "", "deg" in every case, "ab", "AB", "abc", "ef", "de", "eg", "12", "10", "89",
\* "--", "  ", "a ", "-1", "degree"
CharStrings == { <<>>,
                 <<100, 101, 103>>, <<68, 101, 103>>, <<100, 69, 103>>, <<100, 101, 71>>,
                 <<68, 69, 103>>, <<68, 101, 71>>, <<100, 69, 71>>, <<68, 69, 71>>,
                 <<97, 98>>, <<65, 66>>, <<97, 98, 99>>, <<101, 102>>, <<100, 101>>,
                 <<101, 103>>, <<49, 50>>, <<49, 48>>, <<56, 57>>,
                 <<45, 45>>, <<32, 32>>, <<97, 32>>, <<45, 49>>,
                 <<100, 101, 103, 114, 101, 101>> }
CharArgs == {<<c>> : c \in CharCodes} \cup CharStrings

WideColonCall == calls < MaxWideCalls /\ \E pattern \in PatternArgs : set_colon(pattern)

WideGlyphCall ==
    calls < MaxWideCalls /\ \E glyph \in GlyphArgs, digit \in DigitArgs : set_glyph(glyph, digit)

WideNumberCall ==
    calls < MaxWideCalls
        /\ \E number \in NumberArgs, digit \in DigitArgs : set_number(number, digit)

WideCharacterCall ==
    calls < MaxWideCalls
        /\ \E char \in CharArgs, digit \in DigitArgs : set_character(char, digit)

NextWide == WideColonCall \/ WideGlyphCall \/ WideNumberCall \/ WideCharacterCall

SpecWide == Init /\ [][NextWide]_vars

---------------------------------------------------------------------------
(* Properties *)

\* The buffer index of digit d, for d in 0..3
Slot(d) == POS[d + 1]

Digits == 0..3

Succeeded == last.exc = "ok"

\* The error kind InvalidArgument is a failed assert
InvalidArgument == last.exc = "AssertionError"

\* The call left the buffer and the colon pattern as they were
Untouched == buffer = last.buffer0 /\ point_pattern = last.pattern0

\* The buffer before the call with byte i replaced by v
Written(i, v) == [last.buffer0 EXCEPT ![i] = v]

\* C1 (as claimed): on a digit in 0..3, set_character(" ") succeeds and writes 0x00,
\* set_character("-") succeeds and writes 0x10, set_character("deg") succeeds and
\* writes 0x11, each at buffer[POS[digit]].
C1_SpecialTokensWriteFixedCodes ==
    (last.op = "set_character" /\ last.digit \in Digits) =>
        /\ last.char = STR_space => (Succeeded /\ buffer[Slot(last.digit)] = 0)
        /\ last.char = STR_minus => (Succeeded /\ buffer[Slot(last.digit)] = 16)
        /\ last.char = STR_deg => (Succeeded /\ buffer[Slot(last.digit)] = 17)

\* The bytes the scenario's claim expects
ScenarioClaimed ==
    [i \in 0..15 |-> CASE i = 0 -> 109 [] i = 2 -> 119 [] i = 4 -> 2 [] i = 6 -> 16
                       [] OTHER -> 0]

\* The bytes the scenario leaves: CHARSET[5], CHARSET[10], the colon, CHARSET[0x10]
ScenarioActual ==
    [i \in 0..15 |-> CASE i = 0 -> 109 [] i = 2 -> 95 [] i = 4 -> 2 [] i = 6 -> 64
                       [] OTHER -> 0]

\* The four calls of the scenario, and no other, have been made on a fresh encoder
ScenarioDone == on_script /\ calls = Len(Script)

\* C2 (as claimed): after set_number(5, 0), set_character("a", 1),
\* set_character("-", 2), set_colon(0x02) on a fresh encoder the buffer holds 0x6D at
\* index 0, 0x77 at index 2, 0x02 at index 4, 0x10 at index 6 and 0x00 elsewhere.
C2_ScenarioAsClaimed == ScenarioDone => buffer = ScenarioClaimed

\* C2 (amended): after the same four calls the buffer holds 0x6D at index 0, 0x5F
\* (CHARSET[10]) at index 2, 0x02 at index 4, 0x40 (CHARSET[0x10]) at index 6 and
\* 0x00 elsewhere, and the colon pattern is 0x02.
C2_Scenario == ScenarioDone => (buffer = ScenarioActual /\ point_pattern = 2)

C2_Witness == ScenarioDone /\ Succeeded /\ last.op = "set_colon"

\* C3: for digit in 0..3 and number in 0..9, set_number(number, digit) succeeds and
\* buffer[POS[digit]] = CHARSET[number] afterwards.
C3_SetNumberWritesCharset ==
    (last.op = "set_number" /\ last.digit \in Digits /\ last.num \in 0..9) =>
        (Succeeded /\ buffer[Slot(last.digit)] = CHARSET[last.num + 1])

C3_Witness ==
    /\ last.op = "set_number" /\ last.num = 9 /\ last.digit = 3
    /\ Succeeded /\ buffer[8] = 111

\* C4: for digit in 0..3 and a letter 'a'..'f' in either case, set_character writes
\* CHARSET[10 + the letter's index in "abcdef"] at buffer[POS[digit]] and nothing
\* else, so the upper-case letter leaves the same buffer as the lower-case one.
C4_HexLettersEitherCase ==
    (last.op = "set_character" /\ last.digit \in Digits /\ Len(last.char) = 1) =>
        /\ last.char[1] \in 97..102 =>
              /\ Succeeded
              /\ buffer = Written(Slot(last.digit), CHARSET[10 + (last.char[1] - 97) + 1])
        /\ last.char[1] \in 65..70 =>
              /\ Succeeded
              /\ buffer = Written(Slot(last.digit), CHARSET[10 + (last.char[1] - 65) + 1])

C4_Witness ==
    /\ last.op = "set_character" /\ last.char = <<70>> /\ last.digit = 2
    /\ Succeeded /\ buffer[6] = 113

C6_SetColonRange ==
    last.op = "set_colon" =>
        /\ Succeeded <=> (0 <= last.num /\ last.num < 31)
        /\ Succeeded => (point_pattern = last.num /\ buffer[4] = last.num)
        /\ ~Succeeded => InvalidArgument

C6_Witness ==
    /\ last.op = "set_colon" /\ last.num = 30
    /\ Succeeded /\ buffer[4] = 30 /\ point_pattern = 30

\* The lower-cased strings set_character is specified to accept
Recognized(c) ==
    \/ c \in {STR_deg, STR_minus, STR_space}
    \/ Len(c) = 1 /\ c[1] \in (48..57) \cup (97..102)

\* C7 (as claimed): on a digit in 0..3, set_character with a string whose lower-cased
\* form is not recognized fails with InvalidArgument and leaves the buffer and the
\* colon pattern as they were.
C7_UnrecognizedCharIsInvalidArgument ==
    (last.op = "set_character" /\ last.digit \in Digits /\ ~Recognized(lower(last.char)))
        => (InvalidArgument /\ Untouched)

\* C8: with a digit outside 0..3, set_glyph, set_number and set_character fail with
\* InvalidArgument and leave the buffer as it was; a negative digit does not write
\* the slot counted from the end of POS.
C8_BadDigitIsInvalidArgument ==
    (last.op \in {"set_glyph", "set_number", "set_character"} /\ last.digit \notin Digits)
        => (InvalidArgument /\ Untouched)

\* digit -1 on a buffer whose last slot, POS[-1], holds a glyph
C8_Witness ==
    /\ last.op = "set_glyph" /\ last.num = 127 /\ last.digit = -1
    /\ last.buffer0[8] = 64 /\ InvalidArgument

\* C9: a successful set_glyph, set_number or set_character on digit d changes at most
\* buffer[POS[d]] and keeps the colon pattern; a successful set_colon changes at most
\* buffer[4] and the colon pattern.
C9_Frame ==
    /\ (Succeeded /\ last.op \in {"set_glyph", "set_number", "set_character"}) =>
          /\ last.digit \in Digits
          /\ \A i \in 0..15 : i # Slot(last.digit) => buffer[i] = last.buffer0[i]
          /\ point_pattern = last.pattern0
    /\ (Succeeded /\ last.op = "set_colon") =>
          \A i \in 0..15 : i # 4 => buffer[i] = last.buffer0[i]

\* a digit written while the colon byte and another digit slot are set
C9_Witness ==
    /\ last.op = "set_character" /\ last.digit = 1 /\ Succeeded
    /\ last.buffer0[4] = 30 /\ last.buffer0[0] = 127
    /\ buffer[2] # last.buffer0[2]

\* C10: in every state the buffer has 16 bytes, the bytes outside indices 0, 2, 4, 6, 8
\* are 0, the digit slots 0, 2, 6, 8 are below 0x80, and buffer[4] is the colon
\* pattern, which is in 0..0x1E.
C10_BufferWellFormed ==
    /\ DOMAIN buffer = 0..15
    /\ \A i \in (0..15) \ {0, 2, 4, 6, 8} : buffer[i] = 0
    /\ \A i \in {0, 2, 6, 8} : buffer[i] \in 0..127
    /\ buffer[4] = point_pattern
    /\ point_pattern \in 0..30

\* after a failed call on a buffer with a full glyph and the largest colon pattern
C10_Witness ==
    /\ ~Succeeded /\ buffer[0] = 127 /\ buffer[4] = 30 /\ calls >= 3

=============================================================================
